---- MODULE Spec2Model ----
(***************************************************************************)
(* A model of backend/server.py: the wallpaper endpoints (the prompt       *)
(* classifier generate_image_mcp, POST /wallpaper/generate,                *)
(* GET /wallpaper/history), the status endpoints and the agent proxy       *)
(* endpoints (POST /chat, POST /search, GET /agents/capabilities).         *)
(*                                                                         *)
(* Strings the code inspects (prompts, keywords) are sequences of Unicode  *)
(* code points, so that lower(), substring search, UTF-8 encoding and the  *)
(* MD5 digest are computed as Python computes them.  Strings the code only *)
(* passes on (URLs, error texts, agent_type) are TLA+ strings.             *)
(*                                                                         *)
(* Requests run as asyncio tasks on one event loop: a handler runs without *)
(* interruption from one await to the next, so there is one action per     *)
(* stretch of handler code between suspension points, and one action per   *)
(* operation of an external collaborator (the document store, the agent    *)
(* engine) that completes while the handler is suspended.                  *)
(***************************************************************************)
EXTENDS Integers, Sequences, FiniteSets, TLC

\* Python's None, for an agent singleton not constructed yet (instances are
\* numbered from 1).
None == 0

\* ------------------------------------------------------------------------
\* Strings as code point sequences
\* ------------------------------------------------------------------------

\* str.lower() on the code points the model uses: ASCII A-Z and the Latin-1
\* capitals (U+00C0..U+00DE except the multiplication sign) map to the code
\* point 32 above; everything else is unchanged.
LowerChar(c) ==
    IF (c >= 65 /\ c <= 90) \/ (c >= 192 /\ c <= 222 /\ c # 215)
    THEN c + 32 ELSE c

Lower(s) == [i \in 1..Len(s) |-> LowerChar(s[i])]

\* Python's `keyword in text`: keyword is a contiguous substring of text.
Contains(text, keyword) ==
    \E i \in 1..(Len(text) - Len(keyword) + 1) :
        \A j \in 1..Len(keyword) : text[i + j - 1] = keyword[j]

\* A lone surrogate (U+D800..U+DFFF) cannot be encoded as UTF-8:
\* str.encode() raises UnicodeEncodeError.
IsSurrogate(c) == c >= 55296 /\ c <= 57343

Encodable(s) == \A i \in 1..Len(s) : ~IsSurrogate(s[i])

\* UTF-8 bytes of one code point of the Basic Multilingual Plane.
Utf8Char(c) ==
    IF c < 128 THEN <<c>>
    ELSE IF c < 2048 THEN <<192 + (c \div 64), 128 + (c % 64)>>
    ELSE <<224 + (c \div 4096), 128 + ((c \div 64) % 64), 128 + (c % 64)>>

\* str.encode() of a string without surrogates (halved, not walked, to keep
\* the evaluation shallow).
RECURSIVE Utf8(_)
Utf8(s) ==
    IF Len(s) = 0 THEN <<>>
    ELSE IF Len(s) = 1 THEN Utf8Char(s[1])
    ELSE LET h == Len(s) \div 2
         IN  Utf8(SubSeq(s, 1, h)) \o Utf8(SubSeq(s, h + 1, Len(s)))

\* ------------------------------------------------------------------------
\* hashlib.md5 (RFC 1321).  A 32-bit word is a pair <<lo, hi>> of 16-bit
\* halves.
\* ------------------------------------------------------------------------

Half == 65536

RECURSIVE Pow2(_)
Pow2(n) == IF n = 0 THEN 1 ELSE 2 * Pow2(n - 1)

Add32(x, y) ==
    LET lo == x[1] + y[1]
        hi == x[2] + y[2] + (lo \div Half)
    IN  <<lo % Half, hi % Half>>

\* Rotate left by s, 0 < s < 32.
RotL32(x, s) ==
    LET y == IF s >= 16 THEN <<x[2], x[1]>> ELSE x
        r == s % 16
    IN  IF r = 0 THEN y
        ELSE <<((y[1] * Pow2(r)) % Half) + (y[2] \div Pow2(16 - r)),
               ((y[2] * Pow2(r)) % Half) + (y[1] \div Pow2(16 - r))>>

\* The round functions F, G, H, I on one bit each.
RoundBit(r, b, c, d) ==
    CASE r = 0 -> IF b = 1 THEN c ELSE d
      [] r = 1 -> IF d = 1 THEN b ELSE c
      [] r = 2 -> (b + c + d) % 2
      [] r = 3 -> (c + (IF b = 1 \/ d = 0 THEN 1 ELSE 0)) % 2

RECURSIVE RoundBits(_, _, _, _, _)
RoundBits(r, b, c, d, n) ==
    IF n = 0 THEN 0
    ELSE RoundBit(r, b % 2, c % 2, d % 2)
         + 2 * RoundBits(r, b \div 2, c \div 2, d \div 2, n - 1)

RoundFn(r, b, c, d) ==
    <<RoundBits(r, b[1], c[1], d[1], 16), RoundBits(r, b[2], c[2], d[2], 16)>>

\* floor(2^32 * abs(sin(i + 1))), i = 0..63.
Md5K ==
    << <<42104, 55146>>, <<46934, 59591>>, <<28891, 9248>>, <<52974, 49597>>,
       <<4015, 62844>>, <<50730, 18311>>, <<17939, 43056>>, <<38145, 64838>>,
       <<39128, 27008>>, <<63407, 35652>>, <<23473, 65535>>, <<55230, 35164>>,
       <<4386, 27536>>, <<29075, 64920>>, <<17294, 42617>>, <<2081, 18868>>,
       <<9570, 63006>>, <<45888, 49216>>, <<23121, 9822>>, <<51114, 59830>>,
       <<4189, 54831>>, <<5203, 580>>, <<59009, 55457>>, <<64456, 59347>>,
       <<52710, 8673>>, <<2006, 49975>>, <<3463, 62677>>, <<5357, 17754>>,
       <<59653, 43491>>, <<41976, 64751>>, <<729, 26479>>, <<19594, 36138>>,
       <<14658, 65530>>, <<63105, 34673>>, <<24866, 28061>>, <<14348, 64997>>,
       <<59972, 42174>>, <<53161, 19422>>, <<19296, 63163>>, <<48240, 48831>>,
       <<32454, 10395>>, <<10234, 60065>>, <<12421, 54511>>, <<7429, 1160>>,
       <<53305, 55764>>, <<39397, 59099>>, <<31992, 8098>>, <<22117, 50348>>,
       <<8772, 62505>>, <<65431, 17194>>, <<9127, 43924>>, <<41017, 64659>>,
       <<22979, 25947>>, <<52370, 36620>>, <<62589, 65519>>, <<24017, 34180>>,
       <<32335, 28584>>, <<59104, 65068>>, <<17172, 41729>>, <<4513, 19976>>,
       <<32386, 63315>>, <<62005, 48442>>, <<53947, 10967>>, <<54161, 60294>> >>

Md5Shift ==
    << <<7, 12, 17, 22>>, <<5, 9, 14, 20>>, <<4, 11, 16, 23>>, <<6, 10, 15, 21>> >>

\* The message word used in step i.
Md5Index(i) ==
    CASE i \div 16 = 0 -> i
      [] i \div 16 = 1 -> (5 * i + 1) % 16
      [] i \div 16 = 2 -> (3 * i + 5) % 16
      [] i \div 16 = 3 -> (7 * i) % 16

\* 0x67452301, 0xefcdab89, 0x98badcfe, 0x10325476
Md5Init == << <<8961, 26437>>, <<43913, 61389>>, <<56574, 39098>>, <<21622, 4146>> >>

\* Step i of one block on state st = <<a, b, c, d>> with message words m.
Md5Step(i, st, m) ==
    LET f   == RoundFn(i \div 16, st[2], st[3], st[4])
        sum == Add32(Add32(st[1], f), Add32(Md5K[i + 1], m[Md5Index(i) + 1]))
        nb  == Add32(st[2], RotL32(sum, Md5Shift[(i \div 16) + 1][(i % 4) + 1]))
    IN  <<st[4], nb, st[2], st[3]>>

\* Steps lo..hi in order (the range is halved, and the first half computed
\* before the second is entered, to keep the evaluation shallow).
RECURSIVE Md5Steps(_, _, _, _)
Md5Steps(lo, hi, st, m) ==
    IF lo = hi THEN Md5Step(lo, st, m)
    ELSE LET mid   == (lo + hi) \div 2
             first == Md5Steps(lo, mid, st, m)
         IN  IF first[2][1] >= 0 THEN Md5Steps(mid + 1, hi, first, m) ELSE first

\* The sixteen little-endian words of the 64 bytes from offset off.
Md5Words(bytes, off) ==
    [j \in 1..16 |->
        <<bytes[off + 4 * (j - 1) + 1] + 256 * bytes[off + 4 * (j - 1) + 2],
          bytes[off + 4 * (j - 1) + 3] + 256 * bytes[off + 4 * (j - 1) + 4]>>]

\* The message followed by 0x80, zeros up to 56 mod 64, and the bit length as
\* 64 little-endian bits (the model's messages are shorter than 8192 bytes).
Md5Pad(msg) ==
    LET n    == Len(msg)
        z    == (119 - n) % 64
        bits == 8 * n
    IN  msg \o <<128>> \o [k \in 1..z |-> 0]
            \o <<bits % 256, bits \div 256, 0, 0, 0, 0, 0, 0>>

RECURSIVE Md5Blocks(_, _, _)
Md5Blocks(bytes, off, st) ==
    IF off >= Len(bytes) THEN st
    ELSE LET out == Md5Steps(0, 63, st, Md5Words(bytes, off))
         IN  Md5Blocks(bytes, off + 64,
                       <<Add32(st[1], out[1]), Add32(st[2], out[2]),
                         Add32(st[3], out[3]), Add32(st[4], out[4])>>)

\* The sixteen digest bytes.
Md5(msg) ==
    LET st == Md5Blocks(Md5Pad(msg), 0, Md5Init)
    IN  [k \in 1..16 |->
            LET w == st[((k - 1) \div 4) + 1]
                h == w[(((k - 1) % 4) \div 2) + 1]
            IN  IF (k - 1) % 2 = 0 THEN h % 256 ELSE h \div 256]

\* int(hexdigest()[:8], 16) % n: the first four digest bytes read as a
\* big-endian number, reduced modulo n (Horner's rule keeps every
\* intermediate value small; Python's integers do not overflow).
RECURSIVE BigEndianMod(_, _, _)
BigEndianMod(bytes, acc, n) ==
    IF bytes = <<>> THEN acc
    ELSE BigEndianMod(Tail(bytes), (acc * 256 + Head(bytes)) % n, n)

PromptHashMod(prompt, n) == BigEndianMod(SubSeq(Md5(Utf8(prompt)), 1, 4), 0, n)

\* ------------------------------------------------------------------------
\* The prompt classifier: generate_image_mcp
\* ------------------------------------------------------------------------

\* The keyword table in declaration order (a dict iterates in insertion
\* order): sunset, mountains, abstract, geometric, nature, minimal,
\* gradient, neon, artistic, space.
sample_images ==
    << [keyword |-> <<115, 117, 110, 115, 101, 116>>,
        url |-> "https://images.unsplash.com/photo-1506905925346-21bda4d32df4?w=400&h=711&fit=crop&crop=center"],
       [keyword |-> <<109, 111, 117, 110, 116, 97, 105, 110, 115>>,
        url |-> "https://images.unsplash.com/photo-1464822759844-d150bb1e7ead?w=400&h=711&fit=crop&crop=center"],
       [keyword |-> <<97, 98, 115, 116, 114, 97, 99, 116>>,
        url |-> "https://images.unsplash.com/photo-1558618666-fcd25d1cd2f6?w=400&h=711&fit=crop&crop=center"],
       [keyword |-> <<103, 101, 111, 109, 101, 116, 114, 105, 99>>,
        url |-> "https://images.unsplash.com/photo-1520637836862-4d197d17c13a?w=400&h=711&fit=crop&crop=center"],
       [keyword |-> <<110, 97, 116, 117, 114, 101>>,
        url |-> "https://images.unsplash.com/photo-1441974231531-c6227db76b6e?w=400&h=711&fit=crop&crop=center"],
       [keyword |-> <<109, 105, 110, 105, 109, 97, 108>>,
        url |-> "https://images.unsplash.com/photo-1553356084-58ef4a67b2a7?w=400&h=711&fit=crop&crop=center"],
       [keyword |-> <<103, 114, 97, 100, 105, 101, 110, 116>>,
        url |-> "https://images.unsplash.com/photo-1509114397022-ed747cca3f65?w=400&h=711&fit=crop&crop=center"],
       [keyword |-> <<110, 101, 111, 110>>,
        url |-> "https://images.unsplash.com/photo-1518709268805-4e9042af2176?w=400&h=711&fit=crop&crop=center"],
       [keyword |-> <<97, 114, 116, 105, 115, 116, 105, 99>>,
        url |-> "https://images.unsplash.com/photo-1549490349-8643362247b5?w=400&h=711&fit=crop&crop=center"],
       [keyword |-> <<115, 112, 97, 99, 101>>,
        url |-> "https://images.unsplash.com/photo-1446776877081-d282a0f896e2?w=400&h=711&fit=crop&crop=center"] >>

default_image ==
    "https://images.unsplash.com/photo-1542831371-29b0f74f9713?w=400&h=711&fit=crop&crop=center"

\* list(sample_images.values())
image_list == [i \in 1..Len(sample_images) |-> sample_images[i].url]

TableUrls == {image_list[i] : i \in 1..Len(image_list)}

\* A slip the keyword loop could have: no break, so the last match wins.
RECURSIVE SelectByKeywordNoBreak(_, _, _)
SelectByKeywordNoBreak(items, prompt_lower, selected) ==
    IF items = <<>> THEN selected
    ELSE SelectByKeywordNoBreak(Tail(items), prompt_lower,
            IF Contains(prompt_lower, Head(items).keyword)
            THEN Head(items).url ELSE selected)

\* for keyword, image_url in sample_images.items():
\*     if keyword in prompt_lower: selected_image = image_url; break
RECURSIVE SelectByKeyword(_, _, _)
SelectByKeyword(items, prompt_lower, selected) ==
    IF items = <<>> THEN selected
    ELSE IF Contains(prompt_lower, Head(items).keyword) THEN Head(items).url
    ELSE SelectByKeyword(Tail(items), prompt_lower, selected)

\* A slip the fallback could have: keep the default image.
FallbackImageDefault(prompt) == default_image

\* image_list[prompt_hash % len(image_list)], for a prompt that encodes.
FallbackImage(prompt) ==
    image_list[PromptHashMod(prompt, Len(image_list)) + 1]

\* str(e) of the UnicodeEncodeError that prompt.encode() raises.
UnicodeEncodeError == "'utf-8' codec can't encode character: surrogates not allowed"

\* The result dict.  Of the metadata, the prompt echo and the generation
\* time are left out: nothing reads them.
generate_image_mcp(prompt, aspect_ratio, quality, output_format) ==
    LET prompt_lower   == Lower(prompt)
        selected_image == SelectByKeyword(sample_images, prompt_lower, default_image)
    IN  IF selected_image = default_image /\ ~Encodable(prompt)
        THEN [success |-> FALSE, error |-> UnicodeEncodeError]
        ELSE [success  |-> TRUE,
              url      |-> IF selected_image = default_image
                           THEN FallbackImage(prompt) ELSE selected_image,
              metadata |-> [aspect_ratio |-> aspect_ratio, quality |-> quality,
                            format |-> output_format, source |-> "sample_images"]]

\* ------------------------------------------------------------------------
\* Inputs of the classifier specification
\* ------------------------------------------------------------------------

\* The largest number of fragments a prompt is made of.
MaxWords == 2

\* "Sunset", "SPACE", "sun", "set", "xY", U+00C9 (E acute), U+D800 (a lone
\* surrogate).
Fragments ==
    { <<83, 117, 110, 115, 101, 116>>, <<83, 80, 65, 67, 69>>,
      <<115, 117, 110>>, <<115, 101, 116>>, <<120, 89>>, <<201>>, <<55296>> }

RECURSIVE PromptsOf(_)
PromptsOf(n) ==
    IF n = 0 THEN {<<>>}
    ELSE LET shorter == PromptsOf(n - 1)
         IN  shorter \cup {p \o f : p \in shorter, f \in Fragments}

Prompts == PromptsOf(MaxWords)

QualityTokens == {"1", "0.25"}

VARIABLES
    cl_prompt,      \* the prompt generate_image_mcp is called with
    cl_quality,     \* its quality argument
    cl_pc,          \* "call" before the call, "returned" after it
    cl_result       \* its result

cl_vars == <<cl_prompt, cl_quality, cl_pc, cl_result>>

\* A local not assigned yet.
Unset == [unset |-> TRUE]

ClInit ==
    /\ cl_prompt \in Prompts
    /\ cl_quality \in QualityTokens
    /\ cl_pc = "call"
    /\ cl_result = Unset

Classify ==
    /\ cl_pc = "call"
    /\ cl_pc' = "returned"
    /\ cl_result' = generate_image_mcp(cl_prompt, "9:16", cl_quality, "webp")
    /\ UNCHANGED <<cl_prompt, cl_quality>>

\* ------------------------------------------------------------------------
\* The document store, the clock and the request tasks of the wallpaper and
\* status endpoints
\* ------------------------------------------------------------------------

\* .limit(50) of the history query.
HistoryLimit == 50

\* .to_list(1000) of the status listing.
StatusLimit == 1000

\* The most requests one behaviour receives.
MaxTasks == 2

\* The most times the clock advances in one behaviour.
MaxTicks == 1

\* None in a field of type Optional[str]; no message equals it.
NoneStr == "<None>"

\* str(e) of the exceptions the document store raises.
DbErrors == {"ServerSelectionTimeoutError"}

\* 'modern', 'nature', '9:16'
StyleModern == <<109, 111, 100, 101, 114, 110>>
StyleNature == <<110, 97, 116, 117, 114, 101>>
Ratio916 == <<57, 58, 49, 54>>

\* The request bodies POST /wallpaper/generate receives in the model:
\* 'Sunset over mountains' (a keyword in the prompt), 'xyz123 completely
\* unrelated text' (no keyword) in style modern, and a prompt that is one
\* lone surrogate in style nature (a keyword in the style only).
WallpaperRequests ==
    { [prompt |-> <<83, 117, 110, 115, 101, 116, 32, 111, 118, 101, 114, 32,
                    109, 111, 117, 110, 116, 97, 105, 110, 115>>,
       style |-> StyleModern, aspect_ratio |-> Ratio916, quality |-> "high"],
      [prompt |-> <<120, 121, 122, 49, 50, 51, 32, 99, 111, 109, 112, 108,
                    101, 116, 101, 108, 121, 32, 117, 110, 114, 101, 108, 97,
                    116, 101, 100, 32, 116, 101, 120, 116>>,
       style |-> StyleModern, aspect_ratio |-> Ratio916, quality |-> "high"],
      [prompt |-> <<55296>>,
       style |-> StyleNature, aspect_ratio |-> Ratio916, quality |-> "low"],
      [prompt |-> <<55296>>,
       style |-> StyleModern, aspect_ratio |-> Ratio916, quality |-> "high"] }

\* f"{prompt}, {style} style, phone wallpaper, {aspect_ratio} aspect ratio,
\* high quality, detailed, vibrant colors"
EnhancedPrompt(request) ==
    request.prompt \o <<44, 32>> \o request.style
        \o <<32, 115, 116, 121, 108, 101, 44, 32, 112, 104, 111, 110, 101, 32,
             119, 97, 108, 108, 112, 97, 112, 101, 114, 44, 32>>
        \o request.aspect_ratio
        \o <<32, 97, 115, 112, 101, 99, 116, 32, 114, 97, 116, 105, 111, 44,
             32, 104, 105, 103, 104, 32, 113, 117, 97, 108, 105, 116, 121, 44,
             32, 100, 101, 116, 97, 105, 108, 101, 100, 44, 32, 118, 105, 98,
             114, 97, 110, 116, 32, 99, 111, 108, 111, 114, 115>>

\* result = await generate_image_mcp(prompt=enhanced_prompt, ...), which
\* never suspends.
ImageFor(request) ==
    generate_image_mcp(EnhancedPrompt(request), request.aspect_ratio,
                       IF request.quality = "high" THEN "1" ELSE "0.25", "webp")

\* ImageFor, tabulated once for the requests of the model.
ImageTable == {<<request, ImageFor(request)>> : request \in WallpaperRequests}

ImageResult(request) == (CHOOSE row \in ImageTable : row[1] = request)[2]

VARIABLES
    wallpapers,     \* db.wallpapers: the documents in insertion order
    status_checks,  \* db.status_checks: the documents in insertion order
    clock,          \* what datetime.utcnow() returns now
    ticks,          \* how often the clock has advanced
    tasks           \* the requests received, in order of arrival

db_vars == <<wallpapers, status_checks, clock, ticks, tasks>>

\* The collection a process finds at startup holds the documents earlier
\* runs stored.  Document i of n (uuids of earlier runs are negative here):
\* two generate calls that read the same clock value stored equal
\* timestamps.
StoredEarlier(i, n) ==
    [id |-> 0 - i, wallpaper_url |-> image_list[(i % Len(image_list)) + 1],
     timestamp |-> 0 - ((n - i) \div 2), _id |-> i]

PreloadSizes == {0, HistoryLimit}

DbInit ==
    /\ \E n \in PreloadSizes : wallpapers = [i \in 1..n |-> StoredEarlier(i, n)]
    /\ status_checks = <<>>
    /\ clock = 0
    /\ ticks = 0
    /\ tasks = <<>>

\* The clock advances (it never runs backwards in the model).
Tick ==
    /\ ticks < MaxTicks
    /\ ticks' = ticks + 1
    /\ clock' = clock + 1
    /\ UNCHANGED <<wallpapers, status_checks, tasks>>

\* A request arrives and its handler is scheduled on the event loop.
Arrive(endpoint, request) ==
    /\ Len(tasks) < MaxTasks
    /\ tasks' = Append(tasks,
          [endpoint |-> endpoint, request |-> request, pc |-> "start",
           data |-> Unset, seen |-> 0, db_fault |-> FALSE, resp |-> Unset])
    /\ UNCHANGED <<wallpapers, status_checks, clock, ticks>>

Finish(t, resp, db_fault) ==
    tasks' = [tasks EXCEPT ![t].pc = "done", ![t].resp = resp,
                           ![t].db_fault = db_fault]

\* WallpaperResponse(success=False, wallpaper_url="", ..., error=...).
WallpaperFailure(request, error) ==
    [http |-> 200,
     body |-> [success |-> FALSE, wallpaper_url |-> "", prompt |-> request.prompt,
               style |-> request.style, aspect_ratio |-> request.aspect_ratio,
               error |-> error]]

\* generate_wallpaper up to `await db.wallpapers.insert_one(wallpaper_data)`.
\* str(uuid.uuid4()) is the task's number.
GenBegin(t) ==
    /\ tasks[t].endpoint = "generate" /\ tasks[t].pc = "start"
    /\ LET request == tasks[t].request
           result  == ImageResult(request)
       IN  IF result.success
           THEN tasks' = [tasks EXCEPT
                    ![t].pc = "await_insert",
                    ![t].data = [id |-> t, wallpaper_url |-> result.url,
                                 timestamp |-> clock]]
           ELSE Finish(t, WallpaperFailure(request, result.error), FALSE)
    /\ UNCHANGED <<wallpapers, status_checks, clock, ticks>>

\* insert_one adds the storage-internal _id to the document it stores.
WithId(data, oid) ==
    [id |-> data.id, wallpaper_url |-> data.wallpaper_url,
     timestamp |-> data.timestamp, _id |-> oid]

\* A slip the store step could have: the write is applied twice.
DbInsertTwice(t) ==
    /\ tasks[t].endpoint = "generate" /\ tasks[t].pc = "await_insert"
    /\ wallpapers' = wallpapers \o <<WithId(tasks[t].data, Len(wallpapers) + 1),
                                     WithId(tasks[t].data, Len(wallpapers) + 2)>>
    /\ tasks' = [tasks EXCEPT ![t].pc = "inserted"]
    /\ UNCHANGED <<status_checks, clock, ticks>>

\* The store applies insert_one: the document gets its _id and is stored.
DbInsertOne(t) ==
    /\ tasks[t].endpoint = "generate" /\ tasks[t].pc = "await_insert"
    /\ wallpapers' = Append(wallpapers, WithId(tasks[t].data, Len(wallpapers) + 1))
    /\ tasks' = [tasks EXCEPT ![t].pc = "inserted"]
    /\ UNCHANGED <<status_checks, clock, ticks>>

\* generate_wallpaper resumes after the insert and returns the success
\* response.
GenReturn(t) ==
    /\ tasks[t].endpoint = "generate" /\ tasks[t].pc = "inserted"
    /\ LET request == tasks[t].request
       IN  Finish(t, [http |-> 200,
                      body |-> [success |-> TRUE,
                                wallpaper_url |-> tasks[t].data.wallpaper_url,
                                prompt |-> request.prompt, style |-> request.style,
                                aspect_ratio |-> request.aspect_ratio,
                                error |-> NoneStr]], FALSE)
    /\ UNCHANGED <<wallpapers, status_checks, clock, ticks>>

\* insert_one raises (nothing is stored); the handler's except clause returns
\* the failure response.
GenInsertFault(t, e) ==
    /\ tasks[t].endpoint = "generate" /\ tasks[t].pc = "await_insert"
    /\ Finish(t, WallpaperFailure(tasks[t].request, e), TRUE)
    /\ UNCHANGED <<wallpapers, status_checks, clock, ticks>>

Min(a, b) == IF a <= b THEN a ELSE b

\* if "_id" in wallpaper: del wallpaper["_id"]
StripId(doc) ==
    [id |-> doc.id, wallpaper_url |-> doc.wallpaper_url, timestamp |-> doc.timestamp]

\* A slip the history could have: sort("timestamp", 1).
ComesBeforeAscending(a, b, newest_first) ==
    \/ a.timestamp < b.timestamp
    \/ a.timestamp = b.timestamp /\ ~newest_first

\* sort("timestamp", -1): document a, stored before document b, is listed
\* before it when its timestamp is larger.  The store does not say how it
\* orders equal timestamps: either the later stored comes first
\* (newest_first) or the earlier stored does.
ComesBefore(a, b, newest_first) ==
    \/ a.timestamp > b.timestamp
    \/ a.timestamp = b.timestamp /\ ~newest_first

\* The documents from the latest stored to the earliest.
LatestFirst(docs) == [i \in 1..Len(docs) |-> docs[Len(docs) + 1 - i]]

\* collection.find().sort("timestamp", -1).limit(50).  SortSeq moves each
\* document of its argument, in turn, in front of the documents before it
\* that it ComesBefore.
FindSortedLimited(docs, newest_first) ==
    LET Before(a, b) == ComesBefore(a, b, newest_first)
        sorted == SortSeq(LatestFirst(docs), Before)
    IN  SubSeq(sorted, 1, Min(Len(sorted), HistoryLimit))

\* get_wallpaper_history when the query succeeds: the store answers from
\* the documents it holds at that moment.
HistoryOk(t, newest_first) ==
    /\ tasks[t].endpoint = "history" /\ tasks[t].pc = "start"
    /\ LET found   == FindSortedLimited(wallpapers, newest_first)
           listed  == [i \in 1..Len(found) |-> StripId(found[i])]
       IN  tasks' = [tasks EXCEPT
               ![t].pc = "done", ![t].seen = Len(wallpapers),
               ![t].resp = [http |-> 200,
                            body |-> [success |-> TRUE, wallpapers |-> listed,
                                      count |-> Len(listed)]]]
    /\ UNCHANGED <<wallpapers, status_checks, clock, ticks>>

\* get_wallpaper_history when the query raises: the except clause answers
\* (without a count).
HistoryFault(t, e) ==
    /\ tasks[t].endpoint = "history" /\ tasks[t].pc = "start"
    /\ Finish(t, [http |-> 200,
                  body |-> [success |-> FALSE, error |-> e, wallpapers |-> <<>>]],
              TRUE)
    /\ UNCHANGED <<wallpapers, status_checks, clock, ticks>>

\* What FastAPI answers when an exception leaves a handler.
InternalServerError == [http |-> 500, body |-> [detail |-> "Internal Server Error"]]

\* create_status_check when insert_one succeeds.
StatusPostOk(t) ==
    /\ tasks[t].endpoint = "status_post" /\ tasks[t].pc = "start"
    /\ LET status_obj == [id |-> t, client_name |-> tasks[t].request.client_name,
                          timestamp |-> clock]
       IN  /\ status_checks' = Append(status_checks,
                  [id |-> status_obj.id, client_name |-> status_obj.client_name,
                   timestamp |-> status_obj.timestamp, _id |-> Len(status_checks) + 1])
           /\ Finish(t, [http |-> 200, body |-> status_obj], FALSE)
    /\ UNCHANGED <<wallpapers, clock, ticks>>

\* create_status_check when insert_one raises: there is no try, the
\* exception leaves the handler.
StatusPostFault(t, e) ==
    /\ tasks[t].endpoint = "status_post" /\ tasks[t].pc = "start"
    /\ Finish(t, InternalServerError, TRUE)
    /\ UNCHANGED <<wallpapers, status_checks, clock, ticks>>

\* get_status_checks when the query succeeds: StatusCheck(**status_check)
\* keeps the model's fields and drops _id.
StatusGetOk(t) ==
    /\ tasks[t].endpoint = "status_get" /\ tasks[t].pc = "start"
    /\ LET found == SubSeq(status_checks, 1, Min(Len(status_checks), StatusLimit))
       IN  Finish(t, [http |-> 200,
                      body |-> [i \in 1..Len(found) |->
                                   [id |-> found[i].id,
                                    client_name |-> found[i].client_name,
                                    timestamp |-> found[i].timestamp]]], FALSE)
    /\ UNCHANGED <<wallpapers, status_checks, clock, ticks>>

\* get_status_checks when the query raises: the exception leaves the
\* handler.
StatusGetFault(t, e) ==
    /\ tasks[t].endpoint = "status_get" /\ tasks[t].pc = "start"
    /\ Finish(t, InternalServerError, TRUE)
    /\ UNCHANGED <<wallpapers, status_checks, clock, ticks>>

\* The request bodies of each endpoint.
RequestsOf(endpoint) ==
    CASE endpoint = "generate"    -> WallpaperRequests
      [] endpoint = "status_post" -> {[client_name |-> "web"],
                                       [client_name |-> "mobile"]}
      [] OTHER                    -> {Unset}

\* The steps of the wallpaper endpoints.
WallpaperNext ==
    \/ Tick
    \/ \E endpoint \in {"generate", "history"} :
          \E request \in RequestsOf(endpoint) : Arrive(endpoint, request)
    \/ \E t \in 1..Len(tasks) :
          \/ GenBegin(t)
          \/ DbInsertOne(t)
          \/ GenReturn(t)
          \/ \E e \in DbErrors : GenInsertFault(t, e)
          \/ \E newest_first \in BOOLEAN : HistoryOk(t, newest_first)
          \/ \E e \in DbErrors : HistoryFault(t, e)

\* The steps of the status endpoints.
StatusNext ==
    \/ Tick
    \/ \E endpoint \in {"status_post", "status_get"} :
          \E request \in RequestsOf(endpoint) : Arrive(endpoint, request)
    \/ \E t \in 1..Len(tasks) :
          \/ StatusPostOk(t)
          \/ \E e \in DbErrors : StatusPostFault(t, e)
          \/ StatusGetOk(t)
          \/ \E e \in DbErrors : StatusGetFault(t, e)

\* ------------------------------------------------------------------------
\* The agent proxy: POST /chat, POST /search, GET /agents/capabilities
\* ------------------------------------------------------------------------

VARIABLES
    search_agent,   \* the global search_agent: None or an instance
    chat_agent,     \* the global chat_agent: None or an instance
    instances,      \* how many agent instances have been constructed
    agent_tasks     \* the requests received, in order of arrival

agent_vars == <<search_agent, chat_agent, instances, agent_tasks>>

\* request.agent_type of POST /chat: the two documented values and one other.
AgentTypes == {"chat", "search", "image"}

\* str(e) of what the agent engine raises; str(Exception()) is "".
AgentErrors == {"", "engine unreachable"}

\* str(e) of HTTPException(status_code=500, detail="Failed to initialize
\* agent"): "" where the class does not define __str__, else status and
\* detail.
HttpExceptionTexts == {"", "500: Failed to initialize agent"}

\* What agent.execute(...) returns: an AgentResponse with success, content,
\* metadata and error.  sources is metadata.get("tools_used", 0).
ExecuteResults ==
    { [success |-> TRUE, content |-> "answer", sources |-> 2, error |-> NoneStr],
      [success |-> FALSE, content |-> "", sources |-> 0, error |-> "no answer"] }

\* agent.get_capabilities() of the two agent classes.
Capabilities(kind) ==
    IF kind = "search" THEN <<"web_search", "summarize">> ELSE <<"chat">>

AgentInit ==
    /\ search_agent = None
    /\ chat_agent = None
    /\ instances = 0
    /\ agent_tasks = <<>>

\* A request arrives and its handler is scheduled on the event loop.  Of a
\* task, agent is the instance it executes on, constructed the singleton it
\* assigned, first whether its singleton was None when it arrived, and
\* raised what was raised in its handler.
AgentArrive(endpoint, agent_type) ==
    /\ Len(agent_tasks) < MaxTasks
    /\ agent_tasks' = Append(agent_tasks,
          [endpoint |-> endpoint, agent_type |-> agent_type, pc |-> "start",
           agent |-> None, constructed |-> "none",
           first |-> IF endpoint = "search" \/ agent_type = "search"
                     THEN search_agent = None ELSE chat_agent = None,
           raised |-> "none", fault |-> NoneStr, resp |-> Unset])
    /\ UNCHANGED <<search_agent, chat_agent, instances>>

AgentFinish(t, raised, fault, resp) ==
    agent_tasks' = [agent_tasks EXCEPT ![t].pc = "done", ![t].raised = raised,
                                       ![t].fault = fault, ![t].resp = resp]

\* A slip the except clause could have: the exception is raised again.
ChatReraise(agent_type, error) ==
    [http |-> 500, body |-> [detail |-> "Internal Server Error"]]

\* The except clause of chat_with_agent.
ChatFailure(agent_type, error) ==
    [http |-> 200,
     body |-> [success |-> FALSE, response |-> "", agent_type |-> agent_type,
               capabilities |-> <<>>, error |-> error]]

\* A slip the initialisation could have: the guard `is None` is missing and
\* every request constructs its agent.
ChatBeginAlways(t) ==
    /\ agent_tasks[t].endpoint = "chat" /\ agent_tasks[t].pc = "start"
    /\ LET agent_type == agent_tasks[t].agent_type
           kind == IF agent_type = "search" THEN "search" ELSE "chat"
       IN  /\ search_agent' = IF kind = "search" THEN instances + 1 ELSE search_agent
           /\ chat_agent' = IF kind = "chat" THEN instances + 1 ELSE chat_agent
           /\ instances' = instances + 1
           /\ agent_tasks' = [agent_tasks EXCEPT
                  ![t].pc = "await_execute", ![t].agent = instances + 1,
                  ![t].constructed = kind]

\* chat_with_agent up to `await agent.execute(request.message)`, when no
\* constructor raises: the initialisation of the agent the type names, the
\* selection, and the HTTPException for no agent, which the except clause of
\* the same try catches.
ChatBegin(t) ==
    /\ agent_tasks[t].endpoint = "chat" /\ agent_tasks[t].pc = "start"
    /\ LET agent_type == agent_tasks[t].agent_type
           new_search == agent_type = "search" /\ search_agent = None
           new_chat   == ~new_search /\ agent_type = "chat" /\ chat_agent = None
           search_now == IF new_search THEN instances + 1 ELSE search_agent
           chat_now   == IF new_chat THEN instances + 1 ELSE chat_agent
           agent      == IF agent_type = "search" THEN search_now ELSE chat_now
       IN  /\ search_agent' = search_now
           /\ chat_agent' = chat_now
           /\ instances' = IF new_search \/ new_chat THEN instances + 1 ELSE instances
           /\ IF agent = None
              THEN \E text \in HttpExceptionTexts :
                      AgentFinish(t, "not_initialized", text,
                                  ChatFailure(agent_type, text))
              ELSE agent_tasks' = [agent_tasks EXCEPT
                      ![t].pc = "await_execute", ![t].agent = agent,
                      ![t].constructed = IF new_search THEN "search"
                                         ELSE IF new_chat THEN "chat" ELSE "none"]

\* chat_with_agent when the constructor it calls raises: the global keeps
\* None and the except clause answers.
ChatConstructFault(t, e) ==
    /\ agent_tasks[t].endpoint = "chat" /\ agent_tasks[t].pc = "start"
    /\ \/ agent_tasks[t].agent_type = "search" /\ search_agent = None
       \/ agent_tasks[t].agent_type = "chat" /\ chat_agent = None
    /\ AgentFinish(t, "construct", e, ChatFailure(agent_tasks[t].agent_type, e))
    /\ UNCHANGED <<search_agent, chat_agent, instances>>

\* agent.execute returns; chat_with_agent builds the ChatResponse from it.
ChatExecuteReturn(t, response) ==
    /\ agent_tasks[t].endpoint = "chat" /\ agent_tasks[t].pc = "await_execute"
    /\ LET agent_type == agent_tasks[t].agent_type
       IN  AgentFinish(t, "none", NoneStr,
              [http |-> 200,
               body |-> [success |-> response.success, response |-> response.content,
                         agent_type |-> agent_type,
                         capabilities |-> Capabilities(IF agent_type = "search"
                                                       THEN "search" ELSE "chat"),
                         error |-> response.error]])
    /\ UNCHANGED <<search_agent, chat_agent, instances>>

\* agent.execute (or get_capabilities) raises; the except clause answers.
ChatExecuteFault(t, e) ==
    /\ agent_tasks[t].endpoint = "chat" /\ agent_tasks[t].pc = "await_execute"
    /\ AgentFinish(t, "execute", e, ChatFailure(agent_tasks[t].agent_type, e))
    /\ UNCHANGED <<search_agent, chat_agent, instances>>

\* SearchResponse(success=False, summary="", sources_count=0, error=...).
SearchFailure(error) ==
    [http |-> 200,
     body |-> [success |-> FALSE, summary |-> "", sources_count |-> 0,
               error |-> error]]

\* A slip the initialisation could have: every request constructs.
SearchBeginAlways(t) ==
    /\ agent_tasks[t].endpoint = "search" /\ agent_tasks[t].pc = "start"
    /\ search_agent' = instances + 1
    /\ instances' = instances + 1
    /\ agent_tasks' = [agent_tasks EXCEPT
           ![t].pc = "await_execute", ![t].agent = instances + 1,
           ![t].constructed = "search"]
    /\ UNCHANGED chat_agent

\* search_and_summarize up to `await search_agent.execute(...)`, when the
\* constructor does not raise.
SearchBegin(t) ==
    /\ agent_tasks[t].endpoint = "search" /\ agent_tasks[t].pc = "start"
    /\ LET new_search == search_agent = None
           search_now == IF new_search THEN instances + 1 ELSE search_agent
       IN  /\ search_agent' = search_now
           /\ instances' = IF new_search THEN instances + 1 ELSE instances
           /\ agent_tasks' = [agent_tasks EXCEPT
                  ![t].pc = "await_execute", ![t].agent = search_now,
                  ![t].constructed = IF new_search THEN "search" ELSE "none"]
    /\ UNCHANGED chat_agent

\* search_and_summarize when SearchAgent(agent_config) raises.
SearchConstructFault(t, e) ==
    /\ agent_tasks[t].endpoint = "search" /\ agent_tasks[t].pc = "start"
    /\ search_agent = None
    /\ AgentFinish(t, "construct", e, SearchFailure(e))
    /\ UNCHANGED <<search_agent, chat_agent, instances>>

\* search_agent.execute returns.
SearchExecuteReturn(t, result) ==
    /\ agent_tasks[t].endpoint = "search" /\ agent_tasks[t].pc = "await_execute"
    /\ AgentFinish(t, "none", NoneStr,
          IF result.success
          THEN [http |-> 200,
                body |-> [success |-> TRUE, summary |-> result.content,
                          sources_count |-> result.sources, error |-> NoneStr]]
          ELSE SearchFailure(result.error))
    /\ UNCHANGED <<search_agent, chat_agent, instances>>

\* search_agent.execute raises.
SearchExecuteFault(t, e) ==
    /\ agent_tasks[t].endpoint = "search" /\ agent_tasks[t].pc = "await_execute"
    /\ AgentFinish(t, "execute", e, SearchFailure(e))
    /\ UNCHANGED <<search_agent, chat_agent, instances>>

\* get_agent_capabilities: two throwaway instances, the globals untouched.
CapabilitiesOk(t) ==
    /\ agent_tasks[t].endpoint = "capabilities" /\ agent_tasks[t].pc = "start"
    /\ instances' = instances + 2
    /\ AgentFinish(t, "none", NoneStr,
          [http |-> 200,
           body |-> [success |-> TRUE,
                     capabilities |-> [search_agent |-> Capabilities("search"),
                                       chat_agent |-> Capabilities("chat")]]])
    /\ UNCHANGED <<search_agent, chat_agent>>

\* get_agent_capabilities when a constructor raises.
CapabilitiesFault(t, e) ==
    /\ agent_tasks[t].endpoint = "capabilities" /\ agent_tasks[t].pc = "start"
    /\ AgentFinish(t, "construct", e,
                   [http |-> 200, body |-> [success |-> FALSE, error |-> e]])
    /\ UNCHANGED <<search_agent, chat_agent, instances>>

AgentNext ==
    \/ \E agent_type \in AgentTypes : AgentArrive("chat", agent_type)
    \/ AgentArrive("search", "search")
    \/ AgentArrive("capabilities", "none")
    \/ \E t \in 1..Len(agent_tasks) :
          \/ ChatBegin(t)
          \/ \E e \in AgentErrors : ChatConstructFault(t, e)
          \/ \E response \in ExecuteResults : ChatExecuteReturn(t, response)
          \/ \E e \in AgentErrors : ChatExecuteFault(t, e)
          \/ SearchBegin(t)
          \/ \E e \in AgentErrors : SearchConstructFault(t, e)
          \/ \E result \in ExecuteResults : SearchExecuteReturn(t, result)
          \/ \E e \in AgentErrors : SearchExecuteFault(t, e)
          \/ CapabilitiesOk(t)
          \/ \E e \in AgentErrors : CapabilitiesFault(t, e)

\* ------------------------------------------------------------------------
\* Specifications
\* ------------------------------------------------------------------------

vars == <<cl_vars, db_vars, agent_vars>>

\* The classifier, the store and the agent proxy at rest.
ClIdle ==
    /\ cl_prompt = <<>> /\ cl_quality = "1" /\ cl_pc = "idle" /\ cl_result = Unset

DbIdle ==
    /\ wallpapers = <<>> /\ status_checks = <<>> /\ clock = 0 /\ ticks = 0
    /\ tasks = <<>>

\* The wallpaper endpoints.
Init == DbInit /\ ClIdle /\ AgentInit

Next == WallpaperNext /\ UNCHANGED <<cl_vars, agent_vars>>

Spec == Init /\ [][Next]_vars

\* The status endpoints.
InitStatus == DbIdle /\ ClIdle /\ AgentInit

NextStatus == StatusNext /\ UNCHANGED <<cl_vars, agent_vars>>

SpecStatus == InitStatus /\ [][NextStatus]_vars

\* One call of the classifier.
InitClassifier == ClInit /\ DbIdle /\ AgentInit

NextClassifier == Classify /\ UNCHANGED <<db_vars, agent_vars>>

SpecClassifier == InitClassifier /\ [][NextClassifier]_vars

\* The agent proxy.
InitAgents == AgentInit /\ ClIdle /\ DbIdle

NextAgents == AgentNext /\ UNCHANGED <<cl_vars, db_vars>>

SpecAgents == InitAgents /\ [][NextAgents]_vars

\* ------------------------------------------------------------------------
\* Properties of the wallpaper endpoints (specification Spec)
\* ------------------------------------------------------------------------

\* The generate requests that have been answered.
GenerateDone == {t \in 1..Len(tasks) :
                    tasks[t].endpoint = "generate" /\ tasks[t].pc = "done"}

\* The history requests that have been answered without a fault of the query.
HistoryAnswered == {t \in 1..Len(tasks) :
                       /\ tasks[t].endpoint = "history" /\ tasks[t].pc = "done"
                       /\ ~tasks[t].db_fault}

\* C1: every answered generate request with success=true carries a
\* wallpaper_url of the keyword table, every one with success=false carries
\* wallpaper_url = "", and every document of the wallpapers collection has a
\* wallpaper_url of the keyword table.
WallpaperUrlFromTable ==
    /\ \A t \in GenerateDone :
          IF tasks[t].resp.body.success
          THEN tasks[t].resp.body.wallpaper_url \in TableUrls
          ELSE tasks[t].resp.body.wallpaper_url = ""
    /\ \A i \in 1..Len(wallpapers) : wallpapers[i].wallpaper_url \in TableUrls

\* C1 happens: one request answered from the hash fallback ('xyz123
\* completely unrelated text' selects the "space" entry) and stored, one
\* answered with a failure.
WallpaperUrlFromTableWitness ==
    \E t1, t2 \in GenerateDone :
        /\ tasks[t1].resp.body.success
        /\ tasks[t1].request.prompt[1] = 120
        /\ tasks[t1].resp.body.wallpaper_url = sample_images[10].url
        /\ wallpapers[Len(wallpapers)].id = t1
        /\ ~tasks[t2].resp.body.success

\* How many documents of the collection the request t stored.
InsertsOf(t) == Cardinality({i \in 1..Len(wallpapers) : wallpapers[i].id = t})

HistoryShape(t) ==
    LET body    == tasks[t].resp.body
        listed  == body.wallpapers
        n       == Len(listed)
        stored  == SubSeq(wallpapers, 1, tasks[t].seen)
        ids     == {listed[i].id : i \in 1..n}
    IN  /\ body.success
        /\ n = Min(tasks[t].seen, HistoryLimit)
        /\ body.count = n
        /\ tasks[t].seen = 0 => listed = <<>> /\ body.count = 0
        /\ \A i \in 1..n : DOMAIN listed[i] = {"id", "wallpaper_url", "timestamp"}
        /\ Cardinality(ids) = n
        /\ {listed[i] : i \in 1..n}
             \subseteq {[id |-> stored[j].id, wallpaper_url |-> stored[j].wallpaper_url,
                         timestamp |-> stored[j].timestamp] : j \in 1..Len(stored)}
        /\ \A j \in 1..Len(stored) :
              stored[j].id \in ids \/ stored[j].timestamp <= listed[n].timestamp

\* C3 as stated: the history lists min(N, 50) records, the most recent ones,
\* in strictly descending order of timestamp.
HistoryStrictlyDescending ==
    \A t \in HistoryAnswered :
        /\ HistoryShape(t)
        /\ \A i \in 1..(Len(tasks[t].resp.body.wallpapers) - 1) :
              tasks[t].resp.body.wallpapers[i].timestamp
                > tasks[t].resp.body.wallpapers[i + 1].timestamp

\* C3 amended: with N documents in the collection at the query, the history
\* answers success=true with min(N, 50) records and that count, without
\* _id, the most recent ones, in descending order of timestamp in which
\* records of equal timestamp stand next to each other in either order.
HistoryNewestFirst ==
    \A t \in HistoryAnswered :
        /\ HistoryShape(t)
        /\ \A i \in 1..(Len(tasks[t].resp.body.wallpapers) - 1) :
              tasks[t].resp.body.wallpapers[i].timestamp
                >= tasks[t].resp.body.wallpapers[i + 1].timestamp

\* C3 happens: a history over more than 50 documents that lists 50 of them,
\* two of equal timestamp among them.
HistoryNewestFirstWitness ==
    \E t \in HistoryAnswered :
        /\ tasks[t].seen > HistoryLimit
        /\ Len(tasks[t].resp.body.wallpapers) = HistoryLimit
        /\ \E i \in 1..(HistoryLimit - 1) :
              tasks[t].resp.body.wallpapers[i].timestamp
                = tasks[t].resp.body.wallpapers[i + 1].timestamp

\* ------------------------------------------------------------------------
\* Properties of the status endpoints (specification SpecStatus)
\* ------------------------------------------------------------------------

\* C7 as stated: a request whose persistence operation raised is answered
\* with HTTP 200 and success=false.
PersistenceFaultDowngraded ==
    \A t \in 1..Len(tasks) :
        tasks[t].pc = "done" /\ tasks[t].db_fault =>
            /\ tasks[t].resp.http = 200
            /\ tasks[t].resp.body.success = FALSE

\* ------------------------------------------------------------------------
\* Properties of the classifier (specification SpecClassifier)
\* ------------------------------------------------------------------------

\* The table entries whose keyword is in the lower-cased prompt.
Matching(prompt) ==
    {i \in 1..Len(sample_images) :
        Contains(Lower(prompt), sample_images[i].keyword)}

\* The reference of C4: the entry of the first matching keyword in
\* declaration order; without one, the entry at hash(prompt) mod 10.
ReferenceUrl(prompt) ==
    IF Matching(prompt) # {}
    THEN sample_images[CHOOSE i \in Matching(prompt) :
                          \A j \in Matching(prompt) : i <= j].url
    ELSE sample_images[PromptHashMod(prompt, 10) + 1].url

\* What hashlib gives for three prompts of the model:
\* md5(b'xY') = 0f36610f..., 0x0f36610f % 10 = 1 ("mountains");
\* md5(b'') = d41d8cd9..., % 10 = 3 ("geometric");
\* md5('É'.encode()) = 66983bea..., % 10 = 2 ("abstract").
HashlibAgrees ==
    /\ cl_prompt = <<120, 89>> => cl_result.url = sample_images[2].url
    /\ cl_prompt = <<>> => cl_result.url = sample_images[4].url
    /\ cl_prompt = <<201>> => cl_result.url = sample_images[3].url

\* C4 as stated: for every prompt the classifier returns success=true with
\* the URL of the reference.
ClassifierAlwaysSucceeds ==
    cl_pc = "returned" =>
        cl_result.success /\ cl_result.url = ReferenceUrl(cl_prompt)

\* C4 amended: for every prompt that contains a table keyword or can be
\* encoded as UTF-8 the classifier returns success=true with the URL of the
\* reference, which is never the default URL; for a prompt without a keyword
\* that holds a lone surrogate it returns success=false with the text of the
\* UnicodeEncodeError and no URL.
ClassifierFollowsReference ==
    cl_pc = "returned" =>
        IF Matching(cl_prompt) # {} \/ Encodable(cl_prompt)
        THEN /\ cl_result.success
             /\ cl_result.url = ReferenceUrl(cl_prompt)
             /\ cl_result.url \in TableUrls /\ cl_result.url # default_image
             /\ HashlibAgrees
        ELSE /\ ~cl_result.success
             /\ DOMAIN cl_result = {"success", "error"}
             /\ cl_result.error = UnicodeEncodeError

\* C4 happens: a prompt without keyword has been classified by its
\* original-case text (its lower-cased text hashes to another entry).
ClassifierFollowsReferenceWitness ==
    /\ cl_pc = "returned" /\ cl_result.success
    /\ Matching(cl_prompt) = {}
    /\ cl_prompt # Lower(cl_prompt)
    /\ cl_result.url # sample_images[PromptHashMod(Lower(cl_prompt), 10) + 1].url

\* ------------------------------------------------------------------------
\* Properties of the agent proxy (specification SpecAgents)
\* ------------------------------------------------------------------------

\* The POST /chat requests that have been answered.
ChatDone == {t \in 1..Len(agent_tasks) :
                agent_tasks[t].endpoint = "chat" /\ agent_tasks[t].pc = "done"}

\* The singleton a request is for; none for GET /agents/capabilities.
KindOf(task) ==
    IF task.endpoint = "capabilities" THEN "none"
    ELSE IF task.endpoint = "search" \/ task.agent_type = "search"
    THEN "search" ELSE "chat"

SingletonOf(kind) == IF kind = "search" THEN search_agent ELSE chat_agent

\* The failure-shaped answer to a chat request whose constructor or
\* execution raised, but for the error text.
ChatFaultShape(t) ==
    /\ agent_tasks[t].resp.http = 200
    /\ DOMAIN agent_tasks[t].resp.body
         = {"success", "response", "agent_type", "capabilities", "error"}
    /\ agent_tasks[t].resp.body.success = FALSE
    /\ agent_tasks[t].resp.body.response = ""
    /\ agent_tasks[t].resp.body.capabilities = <<>>
    /\ agent_tasks[t].resp.body.agent_type = agent_tasks[t].agent_type

\* C5 as stated: a chat request whose constructor or execution raised is
\* answered with the failure shape and a non-empty error string.
ChatFaultErrorNonEmpty ==
    \A t \in ChatDone :
        agent_tasks[t].raised \in {"construct", "execute"} =>
            /\ ChatFaultShape(t)
            /\ agent_tasks[t].resp.body.error # ""

\* C5 amended: a chat request whose constructor or execution raised is
\* answered with HTTP 200, success=false, response="", capabilities=[], its
\* agent_type and, as error, the text str(e) of the exception, which is
\* empty for an exception raised without a message.
ChatFaultErrorIsText ==
    \A t \in ChatDone :
        agent_tasks[t].raised \in {"construct", "execute"} =>
            /\ ChatFaultShape(t)
            /\ agent_tasks[t].resp.body.error = agent_tasks[t].fault

\* C5 happens: an execution raised an exception without a message.
ChatFaultErrorIsTextWitness ==
    \E t \in ChatDone :
        /\ agent_tasks[t].raised = "execute"
        /\ agent_tasks[t].fault = ""
        /\ agent_tasks[t].resp.body.error = ""

\* C6 as stated: a chat request that finds no agent at the selection ends
\* with HTTP 500.
NotInitializedIsHttp500 ==
    \A t \in ChatDone :
        agent_tasks[t].raised = "not_initialized" =>
            agent_tasks[t].resp.http = 500

\* The steps of C8: a singleton that is not None stays what it is; a step
\* that ends a request with a raising constructor, and a step of
\* GET /agents/capabilities, change no singleton.
SingletonStep ==
    /\ search_agent # None => search_agent' = search_agent
    /\ chat_agent # None => chat_agent' = chat_agent
    /\ \A t \in 1..Len(agent_tasks) :
          /\ agent_tasks[t].pc = "start" /\ agent_tasks'[t].pc # "start"
          /\ \/ agent_tasks'[t].raised = "construct"
             \/ agent_tasks[t].endpoint = "capabilities"
          => search_agent' = search_agent /\ chat_agent' = chat_agent

\* The states of C8: a request that has passed its initialisation to the
\* execution runs on the singleton of its kind, which a request
\* constructed.
SingletonState ==
    \A t \in 1..Len(agent_tasks) :
        agent_tasks[t].pc = "await_execute"
          \/ (agent_tasks[t].pc = "done" /\ agent_tasks[t].raised = "execute")
          \/ (agent_tasks[t].pc = "done" /\ agent_tasks[t].raised = "none"
                /\ agent_tasks[t].endpoint # "capabilities")
        => /\ agent_tasks[t].agent # None
           /\ agent_tasks[t].agent = SingletonOf(KindOf(agent_tasks[t]))
           /\ \E c \in 1..Len(agent_tasks) :
                 /\ agent_tasks[c].constructed = KindOf(agent_tasks[t])
                 /\ agent_tasks[c].agent = agent_tasks[t].agent

\* C8: each singleton is constructed by the first request that needs it
\* and never replaced or reset afterwards, every request of its kind
\* executes on it, a constructor that raises leaves it None, and
\* GET /agents/capabilities changes neither.
SingletonKept == [][SingletonStep]_vars /\ []SingletonState

\* C8 happens: a POST /search and a POST /chat with agent_type "search"
\* execute on the one instance the first of them constructed.
SingletonKeptWitness ==
    \E t1, t2 \in 1..Len(agent_tasks) :
        /\ agent_tasks[t1].endpoint = "search" /\ agent_tasks[t2].endpoint = "chat"
        /\ agent_tasks[t1].constructed = "search"
        /\ agent_tasks[t2].pc = "done" /\ agent_tasks[t2].raised = "none"
        /\ agent_tasks[t2].constructed = "none"
        /\ agent_tasks[t2].agent = agent_tasks[t1].agent
        /\ search_agent = agent_tasks[t1].agent

\* The requests for a singleton that have passed their initialisation
\* without a raise.
Initialised(t) ==
    /\ agent_tasks[t].agent_type \in {"chat", "search"}
    /\ agent_tasks[t].endpoint # "capabilities"
    /\ agent_tasks[t].pc # "start"
    /\ agent_tasks[t].agent # None

\* C9 as stated, of any two first requests for one singleton (both arrived
\* while it was None) that are in flight together: each constructs an
\* instance.
FirstRequestsBothConstruct ==
    \A t1, t2 \in 1..Len(agent_tasks) :
        /\ t1 # t2
        /\ KindOf(agent_tasks[t1]) = KindOf(agent_tasks[t2])
        /\ agent_tasks[t1].first /\ agent_tasks[t2].first
        /\ Initialised(t1) /\ Initialised(t2)
        => /\ agent_tasks[t1].constructed # "none"
           /\ agent_tasks[t2].constructed # "none"

\* C9 amended: the test `is None` and the assignment run without a
\* suspension between them, so no two requests construct the same
\* singleton: of the first requests for one singleton that are in flight
\* together one constructs it and the others execute on that instance; no
\* instance is discarded, and every request is answered with HTTP 200 and a
\* body with a success flag.
SingleConstruction ==
    /\ \A t1, t2 \in 1..Len(agent_tasks) :
          /\ agent_tasks[t1].constructed # "none"
          /\ agent_tasks[t1].constructed = agent_tasks[t2].constructed
          => t1 = t2
    /\ \A t \in 1..Len(agent_tasks) :
          Initialised(t) /\ agent_tasks[t].constructed = "none" =>
              \E c \in 1..Len(agent_tasks) :
                  /\ c # t
                  /\ agent_tasks[c].constructed = KindOf(agent_tasks[t])
                  /\ agent_tasks[c].agent = agent_tasks[t].agent
    /\ \A t \in 1..Len(agent_tasks) :
          agent_tasks[t].pc = "done" =>
              /\ agent_tasks[t].resp.http = 200
              /\ agent_tasks[t].resp.body.success \in BOOLEAN

\* C9 happens: two first POST /search requests are suspended in execute
\* together; one constructed the instance, the other found it.
SingleConstructionWitness ==
    \E t1, t2 \in 1..Len(agent_tasks) :
        /\ agent_tasks[t1].endpoint = "search" /\ agent_tasks[t2].endpoint = "search"
        /\ agent_tasks[t1].first /\ agent_tasks[t2].first
        /\ agent_tasks[t1].pc = "await_execute" /\ agent_tasks[t2].pc = "await_execute"
        /\ agent_tasks[t1].constructed = "search"
        /\ agent_tasks[t2].constructed = "none"
        /\ agent_tasks[t2].agent = agent_tasks[t1].agent

\* C10 as stated: a chat request of another agent_type than "chat" and
\* "search" whose handler has run is served by the chat agent, constructed
\* if need be.
OtherTypeServedByChatAgent ==
    \A t \in 1..Len(agent_tasks) :
        /\ agent_tasks[t].endpoint = "chat"
        /\ agent_tasks[t].agent_type \notin {"chat", "search"}
        /\ agent_tasks[t].pc # "start"
        => /\ agent_tasks[t].agent # None
           /\ agent_tasks[t].agent = chat_agent

====
